---- MODULE Spec2Model ----
(***************************************************************************)
(* A model of fdpi (src/main.rs): a local CONNECT proxy.  The acceptor     *)
(* (tcp_server) spawns one handler task per accepted client; a handler     *)
(* (process) parses the CONNECT head, asks the resolver task               *)
(* (dns_resolver) for an address through a bounded queue, connects, writes *)
(* the success reply, sends the first 64 client bytes upstream in pieces   *)
(* (split_hello_phrase) and then relays.  Bytes are one-character strings  *)
(* or small integers; byte strings are sequences of them.                  *)
(***************************************************************************)
EXTENDS Integers, Sequences, FiniteSets, TLC

----------------------------------------------------------------------------
(* Bounds of the model *)

\* the number of handler tasks that can be alive at the same time
MaxConns == 2
\* the IP TTL the operating system gave the client socket at accept
OrigTtl == 64
\* the number of chunks copy_bidirectional moves in each direction
MaxRelay == 1

Conn == 1..MaxConns

----------------------------------------------------------------------------
(* Program constants *)

CONN_ESTABL == <<" ", "2", "0", "0", " ", "C", "o", "n", "n", "e", "c", "t", "i", "o", "n", " ", "E", "s", "t", "a", "b", "l", "i", "s", "h", "e", "d", "\r", "\n", "\r", "\n">>
CONN_CLOSE == <<" ", "H", "T", "T", "P", "/", "1", ".", "1", " ", "2", "0", "0", " ", "O", "K", "\r", "\n", "C", "o", "n", "n", "e", "c", "t", "i", "o", "n", ":", " ", "c", "l", "o", "s", "e", "\r", "\n", "\r", "\n">>
CONNECT_B == <<"C", "O", "N", "N", "E", "C", "T">>
\* u16::MAX, the largest value parse::<u16> accepts
U16_MAX == 65535
\* the capacity of the resolver's request queue
CHANNEL_CAP == 16
\* the size of hello_buf
HELLO_BUF == 64
\* the TTL set around a Disorder fragment
FAKE_TTL == 1
\* clap's range(1..64) on -s and -d
MAX_POS == 63

----------------------------------------------------------------------------
(* Byte-string helpers (slice::split, str::split_once, str::parse) *)

\* the index of the first occurrence of ch in s, 0 when there is none
RECURSIVE IndexFrom(_, _, _)
IndexFrom(s, ch, i) ==
    IF i > Len(s) THEN 0
    ELSE IF s[i] = ch THEN i
    ELSE IndexFrom(s, ch, i + 1)

IndexOf(s, ch) == IndexFrom(s, ch, 1)

\* slice::split(|x| *x == ch): the subslices between separators, empty ones kept
RECURSIVE SplitOn(_, _)
SplitOn(s, ch) ==
    LET i == IndexOf(s, ch)
    IN  IF i = 0 THEN <<s>>
        ELSE <<SubSeq(s, 1, i - 1)>> \o SplitOn(SubSeq(s, i + 1, Len(s)), ch)

\* a fallback to the HTTP port instead of the HTTPS port
DefaultPortHttp == <<"8", "0">>

\* the port text split_once falls back to (line 254)
DEFAULT_PORT_TXT == <<"4", "4", "3">>

\* str::split_once(':').unwrap_or((domain, "443"))
SplitOnceColon(domain) ==
    LET i == IndexOf(domain, ":")
    IN  IF i = 0 THEN <<domain, DEFAULT_PORT_TXT>>
        ELSE <<SubSeq(domain, 1, i - 1), SubSeq(domain, i + 1, Len(domain))>>

Digit == [c \in {"0", "1", "2", "3", "4", "5", "6", "7", "8", "9"} |->
            CASE c = "0" -> 0 [] c = "1" -> 1 [] c = "2" -> 2 [] c = "3" -> 3
              [] c = "4" -> 4 [] c = "5" -> 5 [] c = "6" -> 6 [] c = "7" -> 7
              [] c = "8" -> 8 [] c = "9" -> 9]

\* the checked accumulation of from_str_radix: -1 on a bad digit or overflow
RECURSIVE AccDigits(_, _, _)
AccDigits(s, i, acc) ==
    IF i > Len(s) THEN acc
    ELSE IF s[i] \notin DOMAIN Digit THEN -1
    ELSE IF acc * 10 + Digit[s[i]] > U16_MAX THEN -1
    ELSE AccDigits(s, i + 1, acc * 10 + Digit[s[i]])

\* a parse that wraps around at 16 bits instead of failing
ParseU16Wrapping(s) ==
    IF Len(s) = 0 \/ \E k \in 1..Len(s) : s[k] \notin DOMAIN Digit THEN -1
    ELSE LET RECURSIVE Val(_)
             Val(k) == IF k = 0 THEN 0 ELSE (Val(k - 1) * 10 + Digit[s[k]]) % (U16_MAX + 1)
         IN  Val(Len(s))

\* str::parse::<u16>: empty text, a lone sign, a non-digit or a value above
\* u16::MAX is an error (-1); one leading '+' is accepted
ParseU16(s) ==
    IF Len(s) = 0 THEN -1
    ELSE IF Len(s) = 1 /\ s[1] \in {"+", "-"} THEN -1
    ELSE IF s[1] = "+" THEN AccDigits(s, 2, 0)
    ELSE AccDigits(s, 1, 0)

----------------------------------------------------------------------------
(* parse_http_head.  The input alphabet is ASCII, so the from_utf8 calls   *)
(* of lines 249 and 253 succeed.                                           *)

ParseErr(why) == [ok |-> FALSE, err |-> why]

parse_http_head(input) ==
    LET cr           == IndexOf(input, "\r")
        first_string == IF cr = 0 THEN input ELSE SubSeq(input, 1, cr - 1)
        it           == SplitOn(first_string, " ")
        command      == it[1]
    IN  IF command # CONNECT_B THEN ParseErr("err command")
        ELSE IF Len(it) < 2 THEN ParseErr("err")
        ELSE LET addr_port == SplitOnceColon(it[2])
                 port      == ParseU16(addr_port[2])
             IN  IF port < 0 THEN ParseErr("ParseIntError")
                 ELSE IF Len(it) < 3 THEN ParseErr("err")
                 ELSE [ok |-> TRUE, command |-> command, domain |-> addr_port[1],
                       port |-> port, method |-> it[3]]

----------------------------------------------------------------------------
(* prepar_fdpi_command: the -s and -d positions become segment lengths *)

Item(x, m) == [i |-> x, c |-> m]

\* Vec::contains under a derived PartialEq, which compares i and c
ContainsDerived(v, x) == \E k \in 1..Len(v) : v[k] = x

\* Vec::contains under FdpiItem's PartialEq, which compares i only
Contains(v, x) == \E k \in 1..Len(v) : v[k].i = x.i

RECURSIVE PushAll(_, _, _)
PushAll(v, xs, m) ==
    IF xs = <<>> THEN v
    ELSE PushAll(IF Contains(v, Item(Head(xs), m)) THEN v ELSE Append(v, Item(Head(xs), m)),
                 Tail(xs), m)

\* the stable sort of v.sort() under FdpiItem's Ord, which orders by i
RECURSIVE InsertSorted(_, _)
InsertSorted(v, x) ==
    IF v = <<>> THEN <<x>>
    ELSE IF x.i < Head(v).i THEN <<x>> \o v
    ELSE <<Head(v)>> \o InsertSorted(Tail(v), x)

RECURSIVE SortItems(_)
SortItems(v) ==
    IF v = <<>> THEN <<>>
    ELSE InsertSorted(SortItems(SubSeq(v, 1, Len(v) - 1)), v[Len(v)])

\* impl Sub for FdpiItem: checked_sub(...).unwrap_or(0), the method of self kept
ItemSub(a, b) == [a EXCEPT !.i = IF a.i >= b.i THEN a.i - b.i ELSE 0]

prepar_fdpi_command(split, disorder) ==
    LET len == IF Len(split) >= Len(disorder) THEN Len(split) ELSE Len(disorder)
        v   == SortItems(PushAll(PushAll(<<>>, split, "Split"), disorder, "Disorder"))
    IN  IF len = 0 THEN <<>>
        ELSE [k \in 1..Len(v) |-> IF k = 1 THEN v[1] ELSE ItemSub(v[k], v[k - 1])]

----------------------------------------------------------------------------
(* The environment: what clients send, what the resolver backend answers,  *)
(* what the sockets accept                                                 *)

\* the decimal text of n
RECURSIVE Digits(_)
Digits(n) ==
    LET d == CHOOSE c \in DOMAIN Digit : Digit[c] = n % 10
    IN  IF n < 10 THEN <<d>> ELSE Append(Digits(n \div 10), d)

\* a request as the client composes it: the tokens it puts on the first line
Parts(cmd, hasAuth, host, portKind, portNum, portTxt, hasVer, ver) ==
    [cmd |-> cmd, hasAuth |-> hasAuth, host |-> host, portKind |-> portKind,
     portNum |-> portNum, portTxt |-> portTxt, hasVer |-> hasVer, ver |-> ver]

\* the bytes of the request on the wire
Render(r) ==
    r.cmd
    \o (IF r.hasAuth
        THEN <<" ">> \o r.host
             \o (CASE r.portKind = "none" -> <<>>
                   [] r.portKind = "num"  -> <<":">> \o Digits(r.portNum)
                   [] r.portKind = "txt"  -> <<":">> \o r.portTxt)
        ELSE <<>>)
    \o (IF r.hasVer THEN <<" ">> \o r.ver ELSE <<>>)
    \o <<"\r", "\n", "\r", "\n">>

V11 == <<"H", "T", "T", "P", "/", "1", ".", "1">>
V10 == <<"H", "T", "T", "P", "/", "1", ".", "0">>
HostA == <<"a", ".", "i", "o">>
HostB == <<"l", "o", "c", "a", "l", "h", "o", "s", "t">>
HostC == <<"e", "x", "a", "m", "p", "l", "e", ".", "c", "o", "m">>
GET_B == <<"G", "E", "T">>

GoodReq(host, portKind, portNum, ver) ==
    Parts(CONNECT_B, TRUE, host, portKind, portNum, <<>>, TRUE, ver)

\* the first requests the clients of the proxy send
SessionReqs ==
    { GoodReq(HostA, "num", 8443, V11),
      GoodReq(HostA, "none", 0, V10),
      Parts(GET_B, TRUE, HostA, "num", 443, <<>>, TRUE, V11),
      Parts(CONNECT_B, FALSE, <<>>, "none", 0, <<>>, FALSE, <<>>),
      Parts(CONNECT_B, TRUE, HostA, "num", 443, <<>>, FALSE, <<>>),
      Parts(CONNECT_B, TRUE, HostA, "txt", 0, <<"h", "t", "t", "p">>, TRUE, V11),
      Parts(CONNECT_B, TRUE, HostA, "txt", 0, <<"6", "5", "5", "3", "6">>, TRUE, V11) }

NoParts == Parts(<<>>, FALSE, <<>>, "none", 0, <<>>, FALSE, <<>>)

\* the inputs of the parser on its own
ParserInputs ==
    { Parts(cmd, TRUE, host, pk[1], pk[2], pk[3], hasVer, ver) :
        cmd \in {CONNECT_B, GET_B, <<"c", "o", "n", "n", "e", "c", "t">>},
        host \in {HostA, HostB, HostC, <<>>},
        pk \in { <<"none", 0, <<>> >>, <<"num", 0, <<>> >>, <<"num", 80, <<>> >>,
                 <<"num", 443, <<>> >>, <<"num", 9000, <<>> >>, <<"num", 65535, <<>> >>,
                 <<"txt", 0, <<>> >>, <<"txt", 0, <<"0", "0", "8", "0">> >>,
                 <<"txt", 0, <<"6", "5", "5", "3", "6">> >>,
                 <<"txt", 0, <<"7", "0", "0", "0", "0", "0">> >>,
                 <<"txt", 0, <<"8", "o">> >>, <<"txt", 0, <<"-", "1">> >>,
                 <<"txt", 0, <<"4", "4", "3", ":", "1">> >> },
        hasVer \in BOOLEAN, ver \in {V11, V10} }
    \cup { Parts(cmd, FALSE, <<>>, "none", 0, <<>>, FALSE, <<>>) : cmd \in {CONNECT_B, GET_B, <<>>} }

NoIp == <<>>
Loop1 == <<127, 0, 0, 1>>
Loop2 == <<127, 8, 9, 10>>
Pub1 == <<93, 184, 216, 34>>

\* what ipv4_lookup answers: an error, or the list of A records
LookupResults ==
    { [ok |-> FALSE, ips |-> <<>>], [ok |-> TRUE, ips |-> <<>>],
      [ok |-> TRUE, ips |-> <<Pub1, Loop1>>], [ok |-> TRUE, ips |-> <<Loop1>>],
      [ok |-> TRUE, ips |-> <<Loop2, Pub1>>] }

\* the -s and -d arguments the proxy is started with, when many handlers run
CliArgsFew == { << <<>>, <<>> >>, << <<4>>, <<6>> >> }

\* the -s and -d arguments the proxy is started with, when one handler runs
CliArgs ==
    CliArgsFew \cup
    { << <<4, 6>>, <<>> >>, << <<>>, <<2>> >>, << <<MAX_POS>>, <<1>> >>,
      << <<9, 4>>, <<4, 9, 12>> >>, << <<>>, <<MAX_POS, 62>> >>, << <<3, 1, 2>>, <<2>> >> }

\* how many bytes the client's hello read returns
HelloLens == {0, 16, HELLO_BUF}

\* the bytes of a client hello of n bytes: byte k has value k
HelloBytes(n) == [k \in 1..n |-> k]

\* how many bytes a write of len bytes may accept (AsyncWriteExt::write may
\* accept fewer than offered)
WriteAccepts(len) == IF len = 0 THEN {0} ELSE {1, len}

----------------------------------------------------------------------------
(* State *)

VARIABLES
    acceptor,      \* tcp_server's accept loop: "running", or "stopped" once accept failed
    num_conns,     \* the live-connection counter
    fdpi_methods,  \* the plan main computes from the command line
    sess,          \* per handler task: its position and the locals and sockets it owns
    resolver,      \* dns_resolver: its position and the request it is looking up
    queue,         \* the mpsc channel of capacity CHANNEL_CAP, oldest request first
    p_in,          \* a function on its own (the parser, the plan preparation): its input
    p_out          \* a function on its own: what it returned

vars == <<acceptor, num_conns, fdpi_methods, sess, resolver, queue, p_in, p_out>>

NoHead == ParseErr("unparsed")
\* the answer of a lookup that has not been made
NoResponse == [ok |-> FALSE, ips |-> <<>>]
\* the oneshot channel: its state, the value sent and the lookup answer the
\* value was taken from
NoSlot == [st |-> "unset", ip |-> NoIp, from |-> NoResponse]

\* a task slot with no task in it
FreeSess ==
    [pc        |-> "free",
     req       |-> NoParts,   \* the request the client composed, until it is queued
     head      |-> NoHead,    \* addr, the parsed head
     slot      |-> NoSlot,    \* the oneshot channel of the resolution request
     ip        |-> NoIp,
     cliTtl    |-> 0,         \* client socket: IP_TTL
     cliReads  |-> 0,         \* client socket: reads completed
     eof       |-> FALSE,     \* the first read returned 0 bytes
     cliWrites |-> <<>>,      \* client socket: the writes it accepted, with the TTL in effect
     connects  |-> 0,         \* upstream connect attempts
     upOpen    |-> FALSE,     \* server_con exists
     upTtl     |-> 0,         \* upstream socket: IP_TTL
     nodelay   |-> FALSE,     \* upstream socket: TCP_NODELAY
     upWrites  |-> <<>>,      \* upstream socket: the writes of split_hello_phrase
     hello_buf |-> <<>>,
     nread     |-> 0,         \* what reader.read returned (the code discards it)
     buf       |-> <<>>,      \* the working slice
     items     |-> <<>>,      \* what is left of the for loop over fdpi_methods
     ttl       |-> 0,         \* the TTL saved at the start of the phase
     relUp     |-> 0,         \* chunks relayed client to upstream
     relDown   |-> 0,         \* chunks relayed upstream to client
     e         |-> "none",    \* what process returned: "ok" or "err"
     notices   |-> 0]         \* writes of CONN_CLOSE attempted

Running == acceptor = "running"

\* a teardown that sends the notice only after a failure
ReturnedQuiet(s, x) ==
    [FreeSess EXCEPT !.pc = IF x = "ok" THEN "decr" ELSE "close", !.e = x, !.req = s.req,
                     !.ip = s.ip, !.connects = s.connects, !.cliTtl = s.cliTtl,
                     !.cliReads = s.cliReads, !.eof = s.eof, !.cliWrites = s.cliWrites]

\* process has returned x: its locals, server_con among them, are dropped; the
\* client socket stays, and so does what the session did (req, ip, connects)
Returned(s, x) ==
    [FreeSess EXCEPT !.pc = "close", !.e = x, !.req = s.req, !.ip = s.ip,
                     !.connects = s.connects, !.cliTtl = s.cliTtl,
                     !.cliReads = s.cliReads, !.eof = s.eof, !.cliWrites = s.cliWrites]

InitCommon ==
    /\ acceptor = "running"
    /\ num_conns = 0
    /\ sess = [c \in Conn |-> FreeSess]
    /\ resolver = [pc |-> "setup", conn |-> 0]
    /\ queue = <<>>

Init ==
    /\ InitCommon
    /\ \E a \in CliArgsFew : fdpi_methods = prepar_fdpi_command(a[1], a[2])
    /\ p_in = NoParts
    /\ p_out = NoHead

----------------------------------------------------------------------------
(* tcp_server *)

FetchAdd(n) == n + 1

FetchSub(n) == n - 1

\* lines 170-175: accept, count, spawn
Accept(c) ==
    /\ Running
    /\ sess[c].pc = "free"
    /\ num_conns' = FetchAdd(num_conns)
    /\ sess' = [sess EXCEPT ![c] = [FreeSess EXCEPT !.pc = "read", !.cliTtl = OrigTtl]]
    /\ UNCHANGED <<acceptor, fdpi_methods, resolver, queue, p_in, p_out>>

\* line 170: accept fails, tcp_server returns, main returns and the runtime
\* with every task in it is dropped
AcceptFail ==
    /\ Running
    /\ acceptor' = "stopped"
    /\ sess' = [c \in Conn |-> FreeSess]
    /\ resolver' = [pc |-> "stopped", conn |-> 0]
    /\ queue' = <<>>
    /\ UNCHANGED <<num_conns, fdpi_methods, p_in, p_out>>

\* the write of line 178 propagated with ? instead of dropped with let _
AfterCloseWriteTry(ok) == IF ok THEN "decr" ELSE "free"

\* where the task goes after the write of line 178, whatever its result
AfterCloseWrite(ok) == "decr"

\* an error handler that ends the server with the session
ErrorHandlingAbort(x) == IF x = "err" THEN "stopped" ELSE "running"

\* lines 129-133: error_handling(x) logs the error; the server is running
\* after it whatever x is
error_handling(x) == "running"

\* lines 177-178: error_handling(e), then let _ = socket.write(CONN_CLOSE).await
CloseNotice(c) ==
    /\ Running
    /\ sess[c].pc = "close"
    /\ acceptor' = error_handling(sess[c].e)
    /\ \/ sess' = [sess EXCEPT ![c].notices = @ + 1, ![c].pc = AfterCloseWrite(FALSE)]
       \/ \E k \in WriteAccepts(Len(CONN_CLOSE)) :
            sess' = [sess EXCEPT ![c].notices = @ + 1,
                                 ![c].cliWrites = Append(@, [data |-> SubSeq(CONN_CLOSE, 1, k),
                                                             ttl |-> sess[c].cliTtl]),
                                 ![c].pc = AfterCloseWrite(TRUE)]
    /\ UNCHANGED <<num_conns, fdpi_methods, resolver, queue, p_in, p_out>>

\* lines 180-182: count down; the task ends and its socket is dropped
Decrement(c) ==
    /\ Running
    /\ sess[c].pc = "decr"
    /\ num_conns' = FetchSub(num_conns)
    /\ sess' = [sess EXCEPT ![c] = FreeSess]
    /\ UNCHANGED <<acceptor, fdpi_methods, resolver, queue, p_in, p_out>>

----------------------------------------------------------------------------
(* process *)

\* a guard that knows 127.0.0.1 only
IsLoopbackExact(ip) == ip = <<127, 0, 0, 1>>

\* Ipv4Addr::is_loopback: 127.0.0.0/8
is_loopback(ip) == ip[1] = 127

\* a reply with the version written into it
ReplyBytesFixed(head) == <<"H", "T", "T", "P", "/", "1", ".", "1">> \o CONN_ESTABL

\* line 238: [addr.method, CONN_ESTABL].concat()
ReplyBytes(head) == head.method \o CONN_ESTABL

\* how much of its buffer a write_all that fails may have written before
WriteAllErrPrefix == {0, 1}

\* a handler without the test of n: the empty buffer goes to the parser
AfterZeroReadParse(s) == Returned(s, IF parse_http_head(<<>>).ok THEN "ok" ELSE "err")

\* lines 218-223: n == 0 returns Ok(())
AfterZeroRead(s) == Returned(s, "ok")

\* lines 214-226: the first read, the parse, the oneshot channel
Read(c) ==
    /\ Running
    /\ sess[c].pc = "read"
    /\ \/ sess' = [sess EXCEPT ![c] = Returned(@, "err")]
       \/ sess' = [sess EXCEPT ![c] = AfterZeroRead([@ EXCEPT !.cliReads = @ + 1, !.eof = TRUE])]
       \/ \E r \in SessionReqs :
            LET addr == parse_http_head(Render(r))
                s    == [sess[c] EXCEPT !.cliReads = @ + 1, !.req = r, !.head = addr]
            IN  sess' = [sess EXCEPT ![c] =
                            IF addr.ok
                            THEN [s EXCEPT !.pc = "send", !.slot = [NoSlot EXCEPT !.st = "pending"]]
                            ELSE Returned(s, "err")]
    /\ UNCHANGED <<acceptor, num_conns, fdpi_methods, resolver, queue, p_in, p_out>>

\* a channel without a capacity
CanSendUnbounded(q) == TRUE

\* line 198: mpsc::channel(16) has a permit for one more request
CanSend(q) == Len(q) < CHANNEL_CAP

\* line 227: tx.send(...).await, which waits while the queue is full and
\* fails once the receiver is gone
Send(c) ==
    /\ Running
    /\ sess[c].pc = "send"
    /\ \/ /\ resolver.pc = "stopped"
          /\ sess' = [sess EXCEPT ![c] = Returned([@ EXCEPT !.req = NoParts], "err")]
          /\ UNCHANGED queue
       \/ /\ resolver.pc # "stopped"
          /\ CanSend(queue)
          /\ queue' = Append(queue, [domain |-> sess[c].head.domain, conn |-> c])
          /\ sess' = [sess EXCEPT ![c].pc = "await_ip", ![c].req = NoParts]
    /\ UNCHANGED <<acceptor, num_conns, fdpi_methods, resolver, p_in, p_out>>

\* lines 228-235: the answer arrives; no address and loopback end the session,
\* anything else starts the connect
AwaitIp(c) ==
    /\ Running
    /\ sess[c].pc = "await_ip"
    /\ sess[c].slot.st \in {"sent", "dropped"}
    /\ LET s  == sess[c]
           ip == s.slot.ip
       IN  sess' = [sess EXCEPT ![c] =
                CASE s.slot.st = "dropped" -> Returned([s EXCEPT !.slot = NoSlot], "err")
                  [] s.slot.st = "sent" /\ ip = NoIp -> Returned([s EXCEPT !.slot = NoSlot], "err")
                  [] s.slot.st = "sent" /\ ip # NoIp ->
                        IF is_loopback(ip)
                        THEN Returned([s EXCEPT !.slot = NoSlot, !.ip = ip], "ok")
                        ELSE [s EXCEPT !.slot = NoSlot, !.ip = ip, !.pc = "connect"]]
    /\ UNCHANGED <<acceptor, num_conns, fdpi_methods, resolver, queue, p_in, p_out>>

\* line 235: TcpStream::connect(...).await
Connect(c) ==
    /\ Running
    /\ sess[c].pc = "connect"
    /\ \/ sess' = [sess EXCEPT ![c] = Returned([@ EXCEPT !.connects = @ + 1], "err")]
       \/ sess' = [sess EXCEPT ![c].connects = @ + 1, ![c].upOpen = TRUE,
                               ![c].upTtl = OrigTtl, ![c].pc = "reply"]
    /\ UNCHANGED <<acceptor, num_conns, fdpi_methods, resolver, queue, p_in, p_out>>

\* line 238: socket.write_all(reply).await
Reply(c) ==
    /\ Running
    /\ sess[c].pc = "reply"
    /\ LET s     == sess[c]
           reply == ReplyBytes(s.head)
       IN  \/ \E k \in WriteAllErrPrefix :
                sess' = [sess EXCEPT ![c] =
                    Returned([s EXCEPT !.cliWrites =
                                 IF k = 0 THEN @
                                 ELSE Append(@, [data |-> SubSeq(reply, 1, k), ttl |-> s.cliTtl])],
                             "err")]
           \/ sess' = [sess EXCEPT ![c].cliWrites = Append(@, [data |-> reply, ttl |-> s.cliTtl]),
                                   ![c].pc = "hello"]
    /\ UNCHANGED <<acceptor, num_conns, fdpi_methods, resolver, queue, p_in, p_out>>

\* lines 239-240: split_hello_phrase has returned Ok, its frame (hello_buf,
\* buf, ttl) is gone and copy_bidirectional_with_sizes starts
StartRelay(c) ==
    /\ Running
    /\ sess[c].pc = "spliced"
    /\ sess' = [sess EXCEPT ![c].pc = "relay", ![c].hello_buf = <<>>, ![c].nread = 0,
                            ![c].buf = <<>>, ![c].ttl = 0, ![c].upWrites = <<>>]
    /\ UNCHANGED <<acceptor, num_conns, fdpi_methods, resolver, queue, p_in, p_out>>

\* line 240: copy_bidirectional_with_sizes moves a chunk upstream to client
RelayDown(c) ==
    /\ Running
    /\ sess[c].pc = "relay"
    /\ sess[c].relDown < MaxRelay
    /\ sess' = [sess EXCEPT ![c].relDown = @ + 1,
                            ![c].cliWrites = Append(@, [data |-> <<"*">>, ttl |-> sess[c].cliTtl])]
    /\ UNCHANGED <<acceptor, num_conns, fdpi_methods, resolver, queue, p_in, p_out>>

\* line 240: copy_bidirectional_with_sizes moves a chunk client to upstream
RelayUp(c) ==
    /\ Running
    /\ sess[c].pc = "relay"
    /\ sess[c].relUp < MaxRelay
    /\ sess' = [sess EXCEPT ![c].relUp = @ + 1, ![c].cliReads = @ + 1]
    /\ UNCHANGED <<acceptor, num_conns, fdpi_methods, resolver, queue, p_in, p_out>>

\* lines 240-243: the relay ends, with both sides closed or with an error
RelayEnd(c) ==
    /\ Running
    /\ sess[c].pc = "relay"
    /\ \E x \in {"ok", "err"} : sess' = [sess EXCEPT ![c] = Returned(@, x)]
    /\ UNCHANGED <<acceptor, num_conns, fdpi_methods, resolver, queue, p_in, p_out>>

----------------------------------------------------------------------------
(* split_hello_phrase(reader = the client socket, writer = the upstream)  *)

\* lines 263-264: the array after a read of n bytes into [0; 64]
ReadInto(n) == [k \in 1..HELLO_BUF |-> IF k <= n THEN HelloBytes(n)[k] ELSE 0]

\* the slice cut to the bytes read
HelloSliceRead(hello_buf, n) == SubSeq(hello_buf, 1, n)

\* line 265: hello_buf.as_slice(), whatever the read returned
HelloSlice(hello_buf, n) == hello_buf

\* carving from the tail
CarveTail(buf, i) == <<SubSeq(buf, Len(buf) - i + 1, Len(buf)), SubSeq(buf, 1, Len(buf) - i)>>

\* lines 272-273 and 277-279: &buf[..i] is written, buf = &buf[i..]
Carve(buf, i) == <<SubSeq(buf, 1, i), SubSeq(buf, i + 1, Len(buf))>>

\* a write the upstream socket accepted k bytes of
UpWrite(s, data, k) ==
    [buf |-> data, n |-> k, ttl |-> s.upTtl, cttl |-> s.cliTtl]

\* the socket whose TTL lines 267, 276 and 278 read and set: reader
SetTtl(s, t) == [s EXCEPT !.cliTtl = t]

\* the low TTL set again where the saved one belongs
SavedTtlFake(s) == FAKE_TTL

\* line 278: the value reader.set_ttl(ttl) puts back, the one line 267 saved
SavedTtl(s) == s.ttl

\* lines 263-268: the hello read, reader.ttl(), writer.set_nodelay(true)
HelloRead(c) ==
    /\ Running
    /\ sess[c].pc = "hello"
    /\ LET s == sess[c]
       IN  \/ sess' = [sess EXCEPT ![c] = Returned(s, "err")]
           \/ \E n \in HelloLens :
                LET s1 == [s EXCEPT !.cliReads = @ + 1, !.nread = n, !.hello_buf = ReadInto(n)]
                IN  \/ sess' = [sess EXCEPT ![c] = Returned(s1, "err")]
                    \/ sess' = [sess EXCEPT ![c] =
                                  [s1 EXCEPT !.buf = HelloSlice(s1.hello_buf, n), !.ttl = s.cliTtl,
                                             !.nodelay = TRUE, !.items = fdpi_methods,
                                             !.pc = "frag"]]
    /\ UNCHANGED <<acceptor, num_conns, fdpi_methods, resolver, queue, p_in, p_out>>

\* lines 269-282: one turn of the loop.  A slice past the end of buf panics
\* and the task dies where it stands.
FragItem(c) ==
    /\ Running
    /\ sess[c].pc = "frag"
    /\ sess[c].items # <<>>
    /\ LET s    == sess[c]
           it   == Head(s.items)
           dis  == it.c = "Disorder"
           s1   == IF dis THEN SetTtl(s, FAKE_TTL) ELSE s
           cut  == Carve(s.buf, it.i)
       IN  \/ dis /\ sess' = [sess EXCEPT ![c] = Returned(s, "err")]
           \/ IF it.i > Len(s.buf)
              THEN sess' = [sess EXCEPT ![c] = [s1 EXCEPT !.pc = "panicked"]]
              ELSE \/ sess' = [sess EXCEPT ![c] = Returned(s1, "err")]
                   \/ \E k \in WriteAccepts(Len(cut[1])) :
                        LET s2 == [s1 EXCEPT !.upWrites = Append(@, UpWrite(s1, cut[1], k))]
                        IN  \/ dis /\ sess' = [sess EXCEPT ![c] = Returned(s2, "err")]
                            \/ sess' = [sess EXCEPT ![c] =
                                  [(IF dis THEN SetTtl(s2, SavedTtl(s)) ELSE s2)
                                       EXCEPT !.buf = cut[2], !.items = Tail(@)]]
    /\ UNCHANGED <<acceptor, num_conns, fdpi_methods, resolver, queue, p_in, p_out>>

\* lines 283-286: the rest is written, writer.set_nodelay(false)
FragFinal(c) ==
    /\ Running
    /\ sess[c].pc = "frag"
    /\ sess[c].items = <<>>
    /\ LET s == sess[c]
       IN  \/ sess' = [sess EXCEPT ![c] = Returned(s, "err")]
           \/ \E k \in WriteAccepts(Len(s.buf)) :
                LET s2 == [s EXCEPT !.upWrites = Append(@, UpWrite(s, s.buf, k))]
                IN  \/ sess' = [sess EXCEPT ![c] = Returned(s2, "err")]
                    \/ sess' = [sess EXCEPT ![c] = [s2 EXCEPT !.nodelay = FALSE, !.pc = "spliced"]]
    /\ UNCHANGED <<acceptor, num_conns, fdpi_methods, resolver, queue, p_in, p_out>>

----------------------------------------------------------------------------
(* dns_resolver *)

\* a receiver that goes away and leaves its requests where they are
KeepQueued(ss, q) == ss

\* the requests of the queue are dropped with the receiver, and with each its
\* oneshot sender
DropQueued(ss, q) ==
    [c \in DOMAIN ss |-> IF \E k \in 1..Len(q) : q[k].conn = c
                    THEN [ss[c] EXCEPT !.slot = [NoSlot EXCEPT !.st = "dropped"]]
                    ELSE ss[c]]

\* lines 136-147: the one-time setup, which line 138 can fail
ResolverSetup ==
    /\ Running
    /\ resolver.pc = "setup"
    /\ \/ /\ resolver' = [resolver EXCEPT !.pc = "recv"]
          /\ UNCHANGED <<sess, queue>>
       \/ /\ resolver' = [resolver EXCEPT !.pc = "stopped"]
          /\ sess' = DropQueued(sess, queue)
          /\ queue' = <<>>
    /\ UNCHANGED <<acceptor, num_conns, fdpi_methods, p_in, p_out>>

\* line 149: rx.recv().await
ResolverRecv ==
    /\ Running
    /\ resolver.pc = "recv"
    /\ queue # <<>>
    /\ resolver' = [pc |-> "lookup", conn |-> Head(queue).conn]
    /\ queue' = Tail(queue)
    /\ UNCHANGED <<acceptor, num_conns, fdpi_methods, sess, p_in, p_out>>

\* the last address of the answer instead of the first
LastIp(response) ==
    IF ~response.ok THEN NoIp
    ELSE IF Len(response.ips) = 0 THEN NoIp
    ELSE response.ips[Len(response.ips)]

\* line 155: the first address of the answer, None on an error or an empty answer
FirstIp(response) ==
    IF ~response.ok THEN NoIp
    ELSE IF Len(response.ips) = 0 THEN NoIp
    ELSE response.ips[1]

\* lines 152-157: the lookup ends and its result goes into the oneshot
\* channel; a send nobody waits for is dropped
ResolverLookup ==
    /\ Running
    /\ resolver.pc = "lookup"
    /\ \E response \in LookupResults :
         LET c == resolver.conn
         IN  sess' = [sess EXCEPT ![c].slot =
                        IF @.st = "pending"
                        THEN [st |-> "sent", ip |-> FirstIp(response), from |-> response]
                        ELSE @]
    /\ resolver' = [pc |-> "recv", conn |-> 0]
    /\ UNCHANGED <<acceptor, num_conns, fdpi_methods, queue, p_in, p_out>>

----------------------------------------------------------------------------
(* The specification of the proxy *)

Next ==
    \/ AcceptFail
    \/ ResolverSetup
    \/ ResolverRecv
    \/ ResolverLookup
    \/ \E c \in Conn :
         \/ Accept(c)
         \/ Read(c)
         \/ Send(c)
         \/ AwaitIp(c)
         \/ Connect(c)
         \/ Reply(c)
         \/ HelloRead(c)
         \/ FragItem(c)
         \/ FragFinal(c)
         \/ StartRelay(c)
         \/ RelayDown(c)
         \/ RelayUp(c)
         \/ RelayEnd(c)
         \/ CloseNotice(c)
         \/ Decrement(c)

Spec == Init /\ [][Next]_vars

\* what the runtime guarantees: a task that can take its next step takes it.
\* The resolver and the handlers' steps that wait for no peer are such
\* steps (a lookup is taken to end); accepts, client reads, connects and the
\* relay wait for the network and are not.
Fairness ==
    /\ WF_vars(ResolverSetup)
    /\ WF_vars(ResolverRecv)
    /\ WF_vars(ResolverLookup)
    /\ \A c \in Conn :
         /\ WF_vars(Send(c))
         /\ WF_vars(AwaitIp(c))
         /\ WF_vars(CloseNotice(c))
         /\ WF_vars(Decrement(c))

FairSpec == Spec /\ Fairness

----------------------------------------------------------------------------
(* The proxy serving one client at a time, under every plan *)

InitOne ==
    /\ InitCommon
    /\ \E a \in CliArgs : fdpi_methods = prepar_fdpi_command(a[1], a[2])
    /\ p_in = NoParts
    /\ p_out = NoHead

NextOne ==
    \/ AcceptFail
    \/ ResolverSetup
    \/ ResolverRecv
    \/ ResolverLookup
    \/ Accept(1)
    \/ Read(1)
    \/ Send(1)
    \/ AwaitIp(1)
    \/ Connect(1)
    \/ Reply(1)
    \/ HelloRead(1)
    \/ FragItem(1)
    \/ FragFinal(1)
    \/ StartRelay(1)
    \/ RelayDown(1)
    \/ RelayUp(1)
    \/ RelayEnd(1)
    \/ CloseNotice(1)
    \/ Decrement(1)

SpecOne == InitOne /\ [][NextOne]_vars

----------------------------------------------------------------------------
(* The proxy under load: the queue of the resolver is one short of full and *)
(* more handlers are about to send                                          *)

\* the handlers that reach line 227 while the queue is one short of full
LateConns == 2
\* the number of requests the resolver answers
MaxServed == 3

QueueConn == 1..(CHANNEL_CAP - 1 + LateConns)

\* the request every client of this scenario sent
LoadReq == GoodReq(HostA, "num", 8443, V11)

\* a handler that was accepted and has read and parsed LoadReq (lines 170-226)
SendingSess ==
    [FreeSess EXCEPT !.pc = "send", !.cliTtl = OrigTtl, !.cliReads = 1, !.req = LoadReq,
                     !.head = parse_http_head(Render(LoadReq)),
                     !.slot = [NoSlot EXCEPT !.st = "pending"]]

\* a handler whose request is in the queue (line 227 has completed)
AwaitingSess == [SendingSess EXCEPT !.pc = "await_ip", !.req = NoParts]

InitQueue ==
    /\ acceptor = "running"
    /\ num_conns = Cardinality(QueueConn)
    /\ fdpi_methods = <<>>
    /\ sess = [c \in QueueConn |-> IF c < CHANNEL_CAP THEN AwaitingSess ELSE SendingSess]
    /\ resolver = [pc |-> "setup", conn |-> 0]
    /\ queue = [k \in 1..(CHANNEL_CAP - 1) |-> [domain |-> SendingSess.head.domain, conn |-> k]]
    /\ p_in = NoParts
    /\ p_out = NoHead

\* the requests answered so far and not yet taken by their handlers
Served == Cardinality({c \in DOMAIN sess : sess[c].slot.st = "sent"})

NextQueue ==
    \/ ResolverSetup
    \/ Served < MaxServed /\ ResolverRecv
    \/ ResolverLookup
    \/ \E c \in QueueConn : Send(c)

SpecQueue == InitQueue /\ [][NextQueue]_vars

----------------------------------------------------------------------------
(* The parser on its own: a request is composed, rendered and parsed *)

InitParse ==
    /\ InitCommon
    /\ fdpi_methods = <<>>
    /\ p_in \in ParserInputs
    /\ p_out = NoHead

ApplyParse ==
    /\ p_out = NoHead
    /\ p_out' = parse_http_head(Render(p_in))
    /\ UNCHANGED <<acceptor, num_conns, fdpi_methods, sess, resolver, queue, p_in>>

NextParse == ApplyParse

SpecParse == InitParse /\ [][NextParse]_vars

----------------------------------------------------------------------------
(* The plan preparation on its own: main hands -s and -d to it *)

\* the most positions given with one option
MaxArgs == 2

\* the positions given: the ends of clap's range and some between
PlanPositions == {1, 2, 5, MAX_POS}

\* the lists of at most n elements of S
SeqsUpTo(S, n) == UNION {[1..k -> S] : k \in 0..n}

PlanInputs ==
    { [split |-> sp, disorder |-> di] :
        sp \in SeqsUpTo(PlanPositions, MaxArgs), di \in SeqsUpTo(PlanPositions, MaxArgs) }

InitPlan ==
    /\ InitCommon
    /\ fdpi_methods = <<>>
    /\ p_in \in PlanInputs
    /\ p_out = NoHead

\* line 193: let fdm = prepar_fdpi_command(&cli.split, &cli.disorder)
ApplyPlan ==
    /\ p_out = NoHead
    /\ p_out' = [ok |-> TRUE, plan |-> prepar_fdpi_command(p_in.split, p_in.disorder)]
    /\ UNCHANGED <<acceptor, num_conns, fdpi_methods, sess, resolver, queue, p_in>>

NextPlan == ApplyPlan

SpecPlan == InitPlan /\ [][NextPlan]_vars

----------------------------------------------------------------------------
(* Helpers of the properties *)

\* the handler tasks that exist and have not ended
Live == {c \in Conn : sess[c].pc \notin {"free", "panicked"}}

Min(a, b) == IF a <= b THEN a ELSE b

IsPrefix(a, b) == Len(a) <= Len(b) /\ a = SubSeq(b, 1, Len(a))

\* the bytes the upstream socket accepted, in order
RECURSIVE Accepted(_)
Accepted(ws) ==
    IF ws = <<>> THEN <<>>
    ELSE Accepted(SubSeq(ws, 1, Len(ws) - 1)) \o SubSeq(ws[Len(ws)].buf, 1, ws[Len(ws)].n)

\* the sum of the first k segment lengths of the plan
RECURSIVE SumLens(_, _)
SumLens(plan, k) == IF k = 0 THEN 0 ELSE SumLens(plan, k - 1) + plan[k].i

PlanLens == [k \in 1..Len(fdpi_methods) |-> fdpi_methods[k].i]

\* a session inside split_hello_phrase after the hello read, or just out of it
InEngine(c) == sess[c].pc \in {"frag", "spliced"}

\* the bytes the hello read returned
HelloRead_Bytes(c) == SubSeq(sess[c].hello_buf, 1, sess[c].nread)

\* the value of a text of decimal digits
RECURSIVE DecValue(_)
DecValue(t) ==
    IF t = <<>> THEN 0 ELSE DecValue(SubSeq(t, 1, Len(t) - 1)) * 10 + Digit[t[Len(t)]]

\* a request that is not a well-formed CONNECT line: another command, no
\* authority, no version token, a port that is no number or does not fit 16 bits
Malformed(r) ==
    \/ r.cmd # CONNECT_B
    \/ ~r.hasAuth
    \/ ~r.hasVer
    \/ /\ r.portKind = "txt"
       /\ \/ r.portTxt = <<>>
          \/ \E k \in 1..Len(r.portTxt) : r.portTxt[k] \notin DOMAIN Digit
          \/ DecValue(r.portTxt) > 65535

WellFormed(r) ==
    /\ r.cmd = CONNECT_B
    /\ r.hasAuth
    /\ r.hasVer
    /\ r.portKind \in {"none", "num"}

\* a resolution request of session c is in the queue or being looked up
Requested(c) ==
    \/ \E k \in 1..Len(queue) : queue[k].conn = c
    \/ resolver.pc = "lookup" /\ resolver.conn = c
    \/ sess[c].slot.st # "unset"

----------------------------------------------------------------------------
(* Properties *)

\* C1: the counter equals the number of handler tasks that were accepted and
\* have not yet counted down: one increment per accept, one decrement per
\* handler on every exit path, so it is zero when every session has
\* completed, and it is never negative.
CounterMatchesLive ==
    Running => /\ num_conns = Cardinality(Live)
               /\ num_conns >= 0
               /\ \A c \in Conn : sess[c].pc # "panicked"

\* C1 witness: two concurrent sessions, one ended cleanly and one ended with
\* a failure, both about to count down.
CounterWitness ==
    /\ sess[1].pc = "decr" /\ sess[1].e = "ok"
    /\ sess[2].pc = "decr" /\ sess[2].e = "err"
    /\ num_conns = 2

\* C2 (as claimed): when the fragmentation phase has completed, the bytes the
\* upstream socket accepted, in order, are exactly the hello bytes read.
Reconstruction ==
    \A c \in Conn :
        sess[c].pc = "spliced" => Accepted(sess[c].upWrites) = HelloRead_Bytes(c)

\* C3 (as claimed): fragment i of the plan is written with the low TTL on the
\* upstream socket iff i is odd, the final remainder with the original TTL.
TtlAlternation ==
    \A c \in Conn :
        InEngine(c) =>
            \A j \in 1..Len(sess[c].upWrites) :
                IF j <= Len(fdpi_methods)
                THEN (sess[c].upWrites[j].ttl = FAKE_TTL) <=> (j % 2 = 1)
                ELSE sess[c].upWrites[j].ttl = sess[c].ttl

\* the fragment the claim's tail carving gives for segment j of hello h, and
\* what it leaves
TailFragment(h, j) ==
    LET hi == Len(h) - Min(SumLens(fdpi_methods, j - 1), Len(h))
        lo == Len(h) - Min(SumLens(fdpi_methods, j), Len(h))
    IN  SubSeq(h, lo + 1, hi)

TailRemainder(h) ==
    SubSeq(h, 1, Len(h) - Min(SumLens(fdpi_methods, Len(fdpi_methods)), Len(h)))

OnlyNotice(c) ==
    /\ Len(sess[c].cliWrites) <= 1
    /\ \A k \in 1..Len(sess[c].cliWrites) : IsPrefix(sess[c].cliWrites[k].data, CONN_CLOSE)

\* C6: a session whose resolution gave an address in 127.0.0.0/8 ends without
\* an upstream connect attempt and without the success reply.
LoopbackGuard ==
    \A c \in Conn :
        (sess[c].ip # NoIp /\ sess[c].ip[1] = 127) =>
            /\ sess[c].pc \in {"close", "decr"}
            /\ sess[c].connects = 0
            /\ ~sess[c].upOpen
            /\ OnlyNotice(c)

\* C6 witness: a session resolved to 127.8.9.10 has ended.
LoopbackWitness ==
    \E c \in Conn : sess[c].ip = Loop2 /\ sess[c].pc = "decr"

\* C7: a well-formed CONNECT line parses to command CONNECT, the host before
\* the colon, the explicit port or 443, and the version token.
ParserResult ==
    (p_out # NoHead /\ WellFormed(p_in)) =>
        p_out = [ok |-> TRUE, command |-> CONNECT_B, domain |-> p_in.host,
                 port |-> IF p_in.portKind = "num" THEN p_in.portNum ELSE 443,
                 method |-> p_in.ver]

\* C7 witness: a line without a port has been parsed.
ParserWitness ==
    /\ p_out # NoHead
    /\ WellFormed(p_in)
    /\ p_in.portKind = "none"
    /\ p_in.host = HostC

\* the session of a malformed request ended at the parse, having asked for
\* no resolution, opened no upstream connection and read nothing more
EndedAtParse(c) ==
    /\ sess[c].pc \in {"close", "decr"}
    /\ sess[c].e = "err"
    /\ ~Requested(c)
    /\ sess[c].connects = 0
    /\ ~sess[c].upOpen
    /\ sess[c].cliReads = 1

\* C8 (as claimed): a malformed first request fails the parse and the session
\* then does no socket I/O at all: nothing is written to the client.
ParseFailureSilent ==
    \A c \in Conn :
        (sess[c].req # NoParts /\ Malformed(sess[c].req)) =>
            EndedAtParse(c) /\ sess[c].cliWrites = <<>>

\* C8 (amended): a malformed first request fails the parse and the session
\* then enqueues no resolution request, opens no upstream connection, reads
\* nothing more from the client and writes nothing to it except the one
\* close notice of the teardown.
ParseFailure ==
    \A c \in Conn :
        (sess[c].req # NoParts /\ Malformed(sess[c].req)) =>
            /\ EndedAtParse(c)
            /\ OnlyNotice(c)
            /\ sess[c].notices = Len(sess[c].cliWrites) \/ sess[c].cliWrites = <<>>

\* C8 witness: the session of the request with port 65536 has ended and is
\* about to count down.
ParseFailureWitness ==
    \E c \in Conn :
        /\ sess[c].req.portTxt = <<"6", "5", "5", "3", "6">>
        /\ sess[c].pc = "decr"
        /\ sess[c].cliWrites # <<>>

\* the success reply, whole, is the first thing written to the client
ReplyWritten(c) ==
    /\ Len(sess[c].cliWrites) >= 1
    /\ sess[c].cliWrites[1].data = sess[c].head.method \o CONN_ESTABL

\* C9: the steps of a session come in the order parse, resolve, connect,
\* reply, fragment, relay: nothing is connected before an address is there,
\* the reply (the client's version token and the fixed trailer) is written
\* only with the upstream connected, the hello is read and fragments are
\* written only after the whole reply, the relay moves bytes only after the
\* fragmentation phase has completed.
StepOrder ==
    \A c \in Conn :
        LET s == sess[c]
        IN  /\ s.pc \in {"read", "send", "await_ip", "connect"} =>
                 s.connects = 0 /\ ~s.upOpen /\ s.cliWrites = <<>> /\ s.upWrites = <<>>
            /\ s.pc \in {"send", "await_ip", "connect"} => s.head.ok /\ s.cliReads = 1
            /\ s.pc \in {"read", "send", "await_ip"} => s.ip = NoIp
            /\ s.connects > 0 => s.ip # NoIp /\ s.connects = 1
            /\ s.upOpen => s.connects = 1
            /\ s.pc = "reply" => s.upOpen /\ s.cliWrites = <<>> /\ s.cliReads = 1
            /\ s.cliWrites # <<>> /\ ~IsPrefix(s.cliWrites[1].data, CONN_CLOSE) => s.connects = 1
            /\ s.pc \in {"hello", "frag", "spliced", "relay"} => s.upOpen /\ ReplyWritten(c)
            /\ s.pc = "hello" => s.cliReads = 1 /\ s.upWrites = <<>>
            /\ s.pc \in {"hello", "frag", "spliced"} =>
                 Len(s.cliWrites) = 1 /\ s.relUp = 0 /\ s.relDown = 0
            /\ s.upWrites # <<>> => InEngine(c) /\ s.cliReads = 2
            /\ s.pc = "spliced" => Len(s.upWrites) = Len(fdpi_methods) + 1 /\ s.items = <<>>
            /\ s.pc = "relay" => s.items = <<>> /\ ~s.nodelay
            /\ s.relUp + s.relDown > 0 => s.pc = "relay"

\* C9 witness: a session of an HTTP/1.0 client relays.
StepOrderWitness ==
    \E c \in Conn :
        sess[c].pc = "relay" /\ sess[c].relDown = 1 /\ sess[c].head.method = V10

\* C10: the close notice is attempted exactly once per handler, after
\* process has returned (with any result) and before the counter is
\* decremented; a failed or short write still leads to the decrement.
CloseNoticeOnce ==
    \A c \in Conn :
        LET s == sess[c]
        IN  /\ s.pc = "decr" => s.notices = 1 /\ s.e # "none"
            /\ s.pc = "close" => s.notices = 0 /\ s.e # "none"
            /\ s.pc \notin {"close", "decr"} => s.notices = 0 /\ s.e = "none"
            /\ s.pc \in {"close", "decr"} => c \in Live /\ num_conns >= 1
            /\ \A k \in 1..Len(s.cliWrites) :
                 IsPrefix(s.cliWrites[k].data, CONN_CLOSE) =>
                    s.pc = "decr" /\ k = Len(s.cliWrites)

\* C10 witness: the write of the notice failed after a clean close and the
\* task is about to count down.
CloseNoticeWitness ==
    \E c \in Conn :
        sess[c].pc = "decr" /\ sess[c].e = "ok" /\ sess[c].notices = 1 /\ sess[c].cliWrites = <<>>

\* the handler tasks of the state, whatever their number
Handlers == DOMAIN sess

\* C11: every request the resolver dequeues has its oneshot slot fulfilled
\* exactly once: the step that ends the lookup turns that slot, and no
\* other, from pending to sent and leaves the worker receiving; the value
\* sent is the first address of the answer, and no address after a failed
\* lookup or an empty answer; a slot once fulfilled is never written again.
SlotFulfilledOnce ==
    [][ /\ (resolver.pc = "lookup" /\ resolver' # resolver /\ acceptor' = "running") =>
             /\ resolver'.pc = "recv"
             /\ sess[resolver.conn].slot.st = "pending"
             /\ sess'[resolver.conn].slot.st = "sent"
             /\ \A d \in Handlers \ {resolver.conn} : sess'[d].slot = sess[d].slot
        /\ \A c \in Handlers :
             /\ (sess'[c].slot.st = "sent" /\ sess[c].slot.st # "sent") =>
                  /\ resolver.pc = "lookup" /\ resolver.conn = c
                  /\ sess[c].slot.st = "pending"
             /\ sess[c].slot.st = "sent" => sess'[c].slot \in {sess[c].slot, NoSlot}
             /\ sess'[c].slot.st = "sent" =>
                  LET a == sess'[c].slot.from
                  IN  /\ (a.ok /\ a.ips # <<>>) => sess'[c].slot.ip = Head(a.ips)
                      /\ (~a.ok \/ a.ips = <<>>) => sess'[c].slot.ip = NoIp
      ]_vars

\* C11 witness: one request was answered with the first of two addresses,
\* another with no address after a failed lookup, a third after an empty
\* answer, and the worker is receiving again.
SlotWitness ==
    /\ resolver.pc = "recv"
    /\ \E c, d, e \in Handlers :
         /\ sess[c].slot.st = "sent" /\ sess[c].slot.from.ips = <<Pub1, Loop1>>
         /\ sess[c].slot.ip = Pub1
         /\ sess[d].slot.st = "sent" /\ ~sess[d].slot.from.ok /\ sess[d].slot.ip = NoIp
         /\ sess[e].slot.st = "sent" /\ sess[e].slot.from.ok /\ sess[e].slot.from.ips = <<>>
         /\ sess[e].slot.ip = NoIp

\* C12: the queue never holds more than 16 requests and a sender stays at
\* its send while the queue is full; a request enters at the tail and the
\* resolver takes the head, so requests are served in the order enqueued;
\* a request is taken only by the receiving resolver, and every request
\* taken earlier has been answered: one lookup is in flight at most.
QueueDiscipline ==
    [][ /\ Len(queue') <= CHANNEL_CAP
        /\ Len(queue) = CHANNEL_CAP =>
             \A c \in Handlers : sess[c].pc = "send" => sess'[c] = sess[c]
        /\ queue' # queue =>
             \/ /\ Len(queue') = Len(queue) + 1
                /\ SubSeq(queue', 1, Len(queue)) = queue
                /\ LET c == queue'[Len(queue')].conn
                   IN  sess[c].pc = "send" /\ sess'[c].pc = "await_ip"
             \/ /\ queue # <<>>
                /\ queue' = Tail(queue)
                /\ resolver.pc = "recv"
                /\ resolver' = [pc |-> "lookup", conn |-> Head(queue).conn]
             \/ /\ queue' = <<>>
                /\ resolver'.pc = "stopped"
        /\ \A c \in Handlers :
             (/\ sess'[c].pc = "await_ip"
              /\ sess'[c].slot.st = "pending"
              /\ \A k \in 1..Len(queue') : queue'[k].conn # c)
                => resolver'.pc = "lookup" /\ resolver'.conn = c
      ]_vars

\* C12 witness: seventeen requests were sent into the queue of sixteen: one
\* is being looked up, the queue is full again and the request sent last
\* is at its tail, behind the fifteen that were there first.
QueueWitness ==
    /\ Len(queue) = CHANNEL_CAP
    /\ resolver.pc = "lookup"
    /\ resolver.conn = 1
    /\ \A k \in 1..(CHANNEL_CAP - 2) : queue[k].conn = k + 1
    /\ \A c \in Handlers : sess[c].pc = "await_ip"

\* C14: when the fragmentation phase has returned Ok, under any plan (the
\* empty one too) and after any hello read (a zero-byte one too), the TTL
\* the engine altered is the one saved at the start of the phase, which is
\* the socket's original one, and TCP_NODELAY is off on the upstream
\* socket; they stay so while the relay runs.
OptionsRestored ==
    \A c \in Conn :
        /\ sess[c].pc = "spliced" =>
             /\ sess[c].cliTtl = sess[c].ttl
             /\ sess[c].ttl = OrigTtl
             /\ sess[c].upTtl = OrigTtl
             /\ ~sess[c].nodelay
        /\ sess[c].pc = "relay" =>
             sess[c].cliTtl = OrigTtl /\ sess[c].upTtl = OrigTtl /\ ~sess[c].nodelay

\* C14 witness: the phase has returned Ok after a zero-byte hello read under
\* a plan with two Disorder segments.
OptionsRestoredWitness ==
    \E c \in Conn :
        /\ sess[c].pc = "spliced"
        /\ sess[c].nread = 0
        /\ Len(fdpi_methods) = 2
        /\ \A k \in 1..2 : fdpi_methods[k].c = "Disorder"

\* the step in which accept fails and the runtime is dropped with every task
ServerEnds ==
    /\ acceptor' = "stopped"
    /\ resolver'.pc = "stopped"
    /\ \A d \in Conn : sess'[d] = FreeSess

\* C15: a step in which a session ends (process returns, with an error or
\* without) or in which an ended session is torn down changes nothing but
\* that session and, at the decrement, the counter: the accept loop keeps
\* running, the resolver and its queue are where they were, and every other
\* handler is in the state it was in.
FailureIsolation ==
    [][ \A c \in Conn :
          (/\ acceptor = "running"
           /\ sess'[c] # sess[c]
           /\ sess[c].e # "none" \/ sess'[c].e # "none"
           /\ ~ServerEnds)
            => /\ acceptor' = "running"
               /\ resolver' = resolver
               /\ queue' = queue
               /\ \A d \in Conn \ {c} : sess'[d] = sess[d]
               /\ num_conns' = IF sess[c].pc = "decr" THEN num_conns - 1 ELSE num_conns
      ]_vars

\* C15 witness: one session has failed after its connect attempt and is
\* about to count down while the other relays, the resolver waits for
\* requests and the accept loop runs.
FailureIsolationWitness ==
    /\ acceptor = "running"
    /\ resolver.pc = "recv"
    /\ \E c, d \in Conn :
         /\ sess[c].pc = "decr" /\ sess[c].e = "err" /\ sess[c].connects = 1
         /\ sess[d].pc = "relay" /\ sess[d].relDown = 1

\* a session that ended in failure at the send or while waiting for the
\* answer, with no upstream connection opened
FailedAtResolution(c) ==
    /\ sess[c].pc = "decr"
    /\ sess[c].e = "err"
    /\ sess[c].connects = 0
    /\ ~sess[c].upOpen
    /\ sess[c].ip = NoIp

ZeroRead ==
    \A c \in Conn :
        sess[c].eof =>
            /\ sess[c].pc \in {"close", "decr"}
            /\ sess[c].e = "ok"
            /\ sess[c].head = NoHead
            /\ sess[c].req = NoParts
            /\ ~Requested(c)
            /\ sess[c].ip = NoIp
            /\ sess[c].connects = 0
            /\ ~sess[c].upOpen
            /\ sess[c].cliReads = 1
            /\ OnlyNotice(c)

\* C17 witness: a session that read zero bytes is about to count down.
ZeroReadWitness ==
    \E c \in Conn : sess[c].eof /\ sess[c].pc = "decr" /\ sess[c].notices = 1

\* C18 (as claimed): at every point of the fragmentation phase the bytes
\* the upstream socket has accepted are the first of the n bytes the hello
\* read returned, in order, and when the phase has returned Ok they are n
\* bytes: nothing added, nothing skipped, nothing sent after a zero-byte
\* read.
HelloSentAsRead ==
    \A c \in Conn :
        InEngine(c) =>
            /\ IsPrefix(Accepted(sess[c].upWrites), HelloRead_Bytes(c))
            /\ sess[c].pc = "spliced" => Len(Accepted(sess[c].upWrites)) = sess[c].nread

\* the values of a list
Range(f) == {f[k] : k \in DOMAIN f}

\* C19: the plan made from the positions of -s and -d has one segment for
\* every distinct position; every length is at least 1; the running sums of
\* the lengths are the distinct positions in ascending order, so the lengths
\* add up to 63 at most; a segment has the method of the position it ends
\* at, Split when the position was given with both options; no positions
\* give the empty plan.
PlanPrepared ==
    p_out.ok =>
        LET plan == p_out.plan
            S    == Range(p_in.split)
            D    == Range(p_in.disorder)
            End(k) == SumLens(plan, k)
        IN  /\ \A k \in 1..Len(plan) : plan[k].i >= 1
            /\ Len(plan) = Cardinality(S \cup D)
            /\ {End(k) : k \in 1..Len(plan)} = S \cup D
            /\ \A k \in 1..Len(plan) : \A j \in 1..(k - 1) : End(j) < End(k)
            /\ End(Len(plan)) <= MAX_POS
            /\ \A k \in 1..Len(plan) :
                 plan[k].c = IF End(k) \in S THEN "Split" ELSE "Disorder"
            /\ (p_in.split = <<>> /\ p_in.disorder = <<>>) => plan = <<>>

\* C19 witness: the plan of -s 5 -s 2 -d 2 -d 63, where position 2 comes
\* with both options and the positions are not in order, has been made.
PlanWitness ==
    /\ p_out.ok
    /\ p_in = [split |-> <<5, 2>>, disorder |-> <<2, MAX_POS>>]
    /\ p_out.plan = <<Item(2, "Split"), Item(3, "Split"), Item(58, "Disorder")>>

\* C20 (as claimed): every write to the client socket (the success reply,
\* the relayed bytes, the close notice) is made with the socket's TTL at its
\* original value, also the close notice that follows a failure in the
\* middle of the fragmentation phase.
ClientTtlAtWrites ==
    \A c \in Conn :
        \A k \in 1..Len(sess[c].cliWrites) : sess[c].cliWrites[k].ttl = OrigTtl

====
